---- MODULE Spec2Model ----
(***************************************************************************)
(* A model of note.py: the weekly note helper.                             *)
(*                                                                         *)
(* Dates are proleptic Gregorian ordinals (datetime.toordinal()); the time *)
(* of day never influences the program.  File contents are sequences of    *)
(* lexical tokens: "#", " ", "\n", the section names and a few text atoms. *)
(***************************************************************************)
EXTENDS Integers, Sequences, FiniteSets, TLC

VARIABLES
    now,      \* datetime.now(), as an ordinal
    files,    \* the note files: path -> content (DOMAIN = existing files)
    dirs,     \* the existing year directories under base_dir
    modes,    \* path -> permission bits set by chmod (DOMAIN = chmod-ed files)
    pc,       \* position of main(): "idle" (not running), "vim" (blocked on the
              \* editor), "chmod" (the editor returned), "done" (main returned)
    vim,      \* the arguments of the running/last editor call
    out,      \* what the last invocation printed on stdout
    exitcode, \* exit status of the last invocation
    inv,      \* the arguments of the last invocation
    call      \* the last direct call of one of the functions, with its result

vars == <<now, files, dirs, modes, pc, vim, out, exitcode, inv, call>>

mainVars == <<dirs, modes, pc, vim, out, exitcode, inv>>

\* ---------------------------------------------------------------- bounds
BoundaryYear == 2021
DaysBefore == 7
DaysAfter == 7
MinYear == 2015
MaxYear == 2030
MaxLines == 3
MaxFiles == 2

\* ------------------------------------------------- datetime (the calendar)
IsLeap(y) == (y % 4 = 0) /\ ((y % 100 # 0) \/ (y % 400 = 0))

DaysBeforeYear(y) ==
    ((y - 1) * 365) + ((y - 1) \div 4) - ((y - 1) \div 100) + ((y - 1) \div 400)

DaysInMonth(y, m) ==
    IF m = 2 THEN (IF IsLeap(y) THEN 29 ELSE 28)
    ELSE IF m \in {4, 6, 9, 11} THEN 30 ELSE 31

DaysBeforeMonth(y, m) ==
    <<0, 31, 59, 90, 120, 151, 181, 212, 243, 273, 304, 334>>[m]
        + (IF m > 2 /\ IsLeap(y) THEN 1 ELSE 0)

\* datetime(y, m, d).toordinal()
Ord(y, m, d) == DaysBeforeYear(y) + DaysBeforeMonth(y, m) + d

\* datetime.fromordinal(n).year
YearOf(n) ==
    CHOOSE y \in (n \div 366)..((n \div 365) + 1) :
        DaysBeforeYear(y) < n /\ n <= DaysBeforeYear(y + 1)

\* the month of the k-th day of year y
MonthInYear(y, k) ==
    CHOOSE m \in 1..12 :
        DaysBeforeMonth(y, m) < k /\ k <= DaysBeforeMonth(y, m) + DaysInMonth(y, m)

MonthOfIn(y, n) == MonthInYear(y, n - DaysBeforeYear(y))

\* datetime.fromordinal(n).month
MonthOf(n) == MonthOfIn(YearOf(n), n)

DayOfIn(y, m, n) == n - DaysBeforeYear(y) - DaysBeforeMonth(y, m)

\* datetime.fromordinal(n).day
DayOf(n) == DayOfIn(YearOf(n), MonthOf(n), n)

\* date.isoweekday(): 1 = Monday .. 7 = Sunday
isoweekday(n) == IF n % 7 = 0 THEN 7 ELSE n % 7

\* week1monday of datetime._isoweek1monday, from the ordinal of January 1st
Week1MondayFrom(firstday) ==
    IF (firstday + 6) % 7 > 3
    THEN firstday - ((firstday + 6) % 7) + 7
    ELSE firstday - ((firstday + 6) % 7)

\* datetime._isoweek1monday(year)
isoweek1monday(year) == Week1MondayFrom(Ord(year, 1, 1))

\* date.isocalendar() given the first Mondays of the previous, this and the
\* next year: <<ISO year, ISO week, ISO weekday>>
IsoCalendarWith(n, year, w0, w1, w2) ==
    IF n - w1 < 0
    THEN <<year - 1, ((n - w0) \div 7) + 1, ((n - w0) % 7) + 1>>
    ELSE IF (n - w1) \div 7 >= 52 /\ n >= w2
    THEN <<year + 1, 1, ((n - w1) % 7) + 1>>
    ELSE <<year, ((n - w1) \div 7) + 1, ((n - w1) % 7) + 1>>

IsoCalendarIn(n, year) ==
    IsoCalendarWith(n, year, isoweek1monday(year - 1), isoweek1monday(year),
                    isoweek1monday(year + 1))

\* date.isocalendar()
isocalendar(n) == IsoCalendarIn(n, YearOf(n))

\* ------------------------------------------------------ the date argument
\* args.date: None, a word (a string without the shape of a date) or a
\* string of three digit groups and two separators.  A digit group is its
\* value v and its number of digits n.
NoneTok == [kind |-> "none", word |-> "", f |-> <<>>, s |-> <<>>]
Word(w) == [kind |-> "word", word |-> w, f |-> <<>>, s |-> <<>>]
Grp(v, n) == [v |-> v, n |-> n]
DateTok(a, s1, b, s2, c) == [kind |-> "date", word |-> "", f |-> <<a, b, c>>, s |-> <<s1, s2>>]

\* FMTS: field order, separator, digits of the year
FMTS == <<
    [order |-> "YMD", sep |-> "-", ylen |-> 4],
    [order |-> "YMD", sep |-> "/", ylen |-> 4],
    [order |-> "DMY", sep |-> "-", ylen |-> 4],
    [order |-> "DMY", sep |-> "/", ylen |-> 4],
    [order |-> "YMD", sep |-> "-", ylen |-> 2],
    [order |-> "YMD", sep |-> "/", ylen |-> 2] >>

\* the date of year group yf, month group mf and day group df, if the
\* groups fit the directives %Y or %y, %m and %d and name a day that exists
DateOfGroups(yf, mf, df, ylen, year) ==
    IF /\ yf.n = ylen
       /\ mf.n \in {1, 2} /\ mf.v \in 1..12
       /\ df.n \in {1, 2} /\ df.v \in 1..31
       /\ year >= 1
       /\ df.v <= DaysInMonth(year, mf.v)
    THEN [ok |-> TRUE, ord |-> Ord(year, mf.v, df.v)]
    ELSE [ok |-> FALSE, ord |-> 0]

\* %y: 69..99 are 1969..1999, 0..68 are 2000..2068
FullYear(yf, ylen) ==
    IF ylen = 4 THEN yf.v ELSE IF yf.v < 69 THEN 2000 + yf.v ELSE 1900 + yf.v

StrptimeGroups(yf, mf, df, ylen) == DateOfGroups(yf, mf, df, ylen, FullYear(yf, ylen))

\* datetime.strptime(date, fmt): [ok, ord]; ok = FALSE is ValueError
strptime(date, fmt) ==
    IF date.kind # "date" \/ date.s # <<fmt.sep, fmt.sep>>
    THEN [ok |-> FALSE, ord |-> 0]
    ELSE IF fmt.order = "YMD"
    THEN StrptimeGroups(date.f[1], date.f[2], date.f[3], fmt.ylen)
    ELSE StrptimeGroups(date.f[3], date.f[2], date.f[1], fmt.ylen)

\* `date in ("last")` is a substring test: ("last") is a string, not a tuple
SubstringsOfLast == {"l", "a", "s", "t", "la", "as", "st", "las", "ast", "last"}

\* what strptime gives for each format of FMTS
TryFormats(date) == [i \in 1..Len(FMTS) |-> strptime(date, FMTS[i])]

\* lines 64-69: the result of the first format that parses; ok = FALSE when
\* none does, and then date is still the argument string
FirstParsed(ps) ==
    IF \E i \in DOMAIN ps : ps[i].ok
    THEN ps[CHOOSE i \in DOMAIN ps : ps[i].ok /\ \A j \in 1..(i - 1) : ~ps[j].ok]
    ELSE [ok |-> FALSE, ord |-> 0]

Falsy(date) == date.kind = "none" \/ (date.kind = "word" /\ date.word = "")

\* the value of the local `date` after the if/elif/else of lines 59-69
ResolveDate(date, today) ==
    IF Falsy(date) \/ (date.kind = "word" /\ date.word \in {"this", "today"})
    THEN [ok |-> TRUE, ord |-> today]
    ELSE IF date.kind = "word" /\ date.word \in SubstringsOfLast
    THEN [ok |-> TRUE, ord |-> today - 7]
    ELSE FirstParsed(TryFormats(date))

\* lines 71-77.  `if not date` tests the string left by the loop, which is
\* never empty (the empty string took the first branch); an unparsed string
\* then reaches `date.year` and raises AttributeError.
YearAndWeek(date, r) ==
    IF ~r.ok /\ Falsy(date)
    THEN [ok |-> FALSE, year |-> 0, week |-> 0, err |-> "return 1"]
    ELSE IF ~r.ok
    THEN [ok |-> FALSE, year |-> 0, week |-> 0, err |-> "AttributeError"]
    ELSE [ok |-> TRUE, year |-> YearOf(r.ord), week |-> isocalendar(r.ord)[2], err |-> ""]

\* get_year_and_week_from_date: [ok, year, week, err]
get_year_and_week_from_date(date, today) == YearAndWeek(date, ResolveDate(date, today))

\* iso_week_to_date_range with the rewind to Monday off by one day
iso_week_to_date_range_offbyone(year, week, days) ==
    LET jan4 == Ord(year, 1, 4)
        start_of_year_week == jan4 - isoweekday(jan4)
        start_date == start_of_year_week + 7 * (week - 1)
        end_date == start_date + (days - 1)
    IN  <<start_date, end_date>>

\* iso_week_to_date_range(year, week, days): <<start_date, end_date>>
iso_week_to_date_range(year, week, days) ==
    LET jan4 == Ord(year, 1, 4)
        start_of_year_week == jan4 - (isoweekday(jan4) - 1)
        start_date == start_of_year_week + 7 * (week - 1)
        end_date == start_date + (days - 1)
    IN  <<start_date, end_date>>

\* <base_dir>/<year>/<start_date.strftime("%m-%d")>.md as <<year, month, day>>
PathOf(year, start_date) == <<year, MonthOf(start_date), DayOf(start_date)>>

\* lines 82-89
FilenameFor(r) ==
    IF ~r.ok THEN [ok |-> FALSE, path |-> <<0, 0, 0>>, err |-> r.err]
    ELSE [ok |-> TRUE, err |-> "",
          path |-> PathOf(r.year, iso_week_to_date_range(r.year, r.week, 5)[1])]

\* build_filename: [ok, path, err]
build_filename(date, today) == FilenameFor(get_year_and_week_from_date(date, today))

\* ------------------------------------------------------ note file contents
\* "## <section>"
Heading(section) == <<"#", "#", " ", section>>

\* the characters str.strip() removes
Whitespace == {" ", "\n"}

RECURSIVE LStrip(_)
LStrip(s) == IF s # <<>> /\ Head(s) \in Whitespace THEN LStrip(Tail(s)) ELSE s

RECURSIVE RStrip(_)
RStrip(s) ==
    IF s # <<>> /\ s[Len(s)] \in Whitespace THEN RStrip(SubSeq(s, 1, Len(s) - 1)) ELSE s

\* str.strip()
Strip(s) == RStrip(LStrip(s))

\* s[i:] starts with the sequence t (i is 1-based)
StartsWithAt(s, i, t) == i + Len(t) - 1 <= Len(s) /\ SubSeq(s, i, i + Len(t) - 1) = t

Least(S) == CHOOSE x \in S : \A y \in S : x <= y

\* the lazy (.*?)(?=\n##|\Z) from position i: up to the nearest position
\* followed by "\n##", or to the end of the content
LazyGroup(content, i) ==
    SubSeq(content, i,
           Least({j \in i..(Len(content) + 1) :
                    j = Len(content) + 1 \/ StartsWithAt(content, j, <<"\n", "#", "#">>)}) - 1)

\* the positions preceded by pre: where (?<=## {section}\n) holds
LookbehindAt(content, pre) ==
    {i \in 1..(Len(content) + 1) : i > Len(pre) /\ StartsWithAt(content, i - Len(pre), pre)}

SearchFrom(content, starts) ==
    IF starts = {} THEN [found |-> FALSE, text |-> <<>>]
    ELSE [found |-> TRUE, text |-> LazyGroup(content, Least(starts))]

\* re.search(rf"(?<=## {section}\n)(.*?)(?=\n##|\Z)", content, re.DOTALL):
\* the leftmost position where the lookbehind holds always matches, since
\* the end of the content ends the group.  [found, text]; text is group(0).
SectionSearch(content, section) ==
    SearchFrom(content, LookbehindAt(content, Heading(section) \o <<"\n">>))

\* os.path.exists(file_path) and os.path.getsize(file_path) > 0   (line 95)
ReadableNote(fs, path) == path \in DOMAIN fs /\ Len(fs[path]) > 0

\* lines 99-101; without a match the function falls off its end
Extracted(result, date) ==
    IF result.found
    THEN [kind |-> "str", text |-> Strip(result.text), date |-> date]
    ELSE [kind |-> "None", text |-> <<>>, date |-> date]

\* lines 95-106, given what build_filename returned or raised
CatFile(section, date, bf, fs) ==
    IF ~bf.ok THEN [kind |-> bf.err, text |-> <<>>, date |-> date]
    ELSE IF ReadableNote(fs, bf.path)
    THEN Extracted(SectionSearch(fs[bf.path], section), date)
    ELSE IF ~Falsy(date)
    THEN [kind |-> "FileNotFoundError", text |-> <<>>, date |-> date]
    ELSE [kind |-> "FileNotFoundError", text |-> <<>>, date |-> NoneTok]

\* cat_section(section, date, base_dir): [kind, text, date] where kind is
\* "str" (text returned), "None", "FileNotFoundError" (date says which of
\* the two messages) or "AttributeError" (from build_filename)
cat_section(section, date, today, fs) ==
    CatFile(section, date, build_filename(date, today), fs)

\* ------------------------------------------------------------------ main
Pad2(n) == IF n < 10 THEN "0" \o ToString(n) ELSE ToString(n)

\* date.strftime(DATE_FMT)
DateStr(n) == ToString(YearOf(n)) \o "/" \o Pad2(MonthOf(n)) \o "/" \o Pad2(DayOf(n))

\* NOTE_TEMPLATE.format(...): the title text is one atom
NOTE_TEMPLATE(year, week, week_start_date, week_end_date, todo, blockers) ==
    <<"#", " ",
      ToString(year) \o " W" \o ToString(week) \o " (" \o week_start_date
          \o " - " \o week_end_date \o ")",
      "\n", "\n", "\n">>
    \o Heading("Done") \o <<"\n", "\n", "\n">>
    \o Heading("TODO") \o <<"\n", "\n">> \o todo \o <<"\n", "\n">>
    \o Heading("Blockers") \o <<"\n", "\n">> \o blockers \o <<"\n", "\n">>

NoEditor == [open |-> FALSE, path |-> <<0, 0, 0>>, create |-> FALSE, text |-> <<>>]
NoOutput == [kind |-> "", text |-> <<>>, date |-> NoneTok]
NoInvocation == [run |-> FALSE, date |-> NoneTok, todo |-> FALSE, blockers |-> FALSE]

\* the test of line 160 answering "no" for every file
NoteExists_never(fs, path) == FALSE

\* os.path.exists(file_path) and os.path.getsize(file_path) > 0   (line 160)
NoteExists(fs, path) == path \in DOMAIN fs /\ Len(fs[path]) > 0

\* `x if x else ""`: None and the empty string are both false
Truthy(r) == r.kind = "str" /\ r.text # <<>>

\* lines 179-186
Rendered(year, week, range, last_todo, last_blockers) ==
    NOTE_TEMPLATE(year, week, DateStr(range[1]), DateStr(range[2]),
        IF Truthy(last_todo) THEN last_todo.text \o <<"\n">> ELSE <<>>,
        IF Truthy(last_blockers) THEN last_blockers.text ELSE <<>>)

\* lines 165-168
RenderedFor(r, last_todo, last_blockers) ==
    Rendered(r.year, r.week, iso_week_to_date_range(r.year, r.week, 5),
             last_todo, last_blockers)

\* lines 165-186: the text given to the editor for a new note.  Both
\* carry-forward reads pass the literal "last"; an exception leaves None.
InitialText(date, today, fs) ==
    RenderedFor(get_year_and_week_from_date(date, today),
                cat_section("TODO", Word("last"), today, fs),
                cat_section("Blockers", Word("last"), today, fs))

\* main() creating the year directory before it looks at the flags
MainQuery_makedirs(date, todo, blockers) ==
    /\ pc = "idle"
    /\ todo \/ blockers
    /\ inv' = [run |-> TRUE, date |-> date, todo |-> todo, blockers |-> blockers]
    /\ out' = cat_section(IF todo THEN "TODO" ELSE "Blockers", date, now, files)
    /\ dirs' = dirs \cup {YearOf(now)}
    /\ exitcode' = 0
    /\ pc' = "done"
    /\ UNCHANGED <<now, files, modes, vim, call>>

\* main() with --todo and/or --blockers: print the section or the exception
MainQuery(date, todo, blockers) ==
    /\ pc = "idle"
    /\ todo \/ blockers
    /\ inv' = [run |-> TRUE, date |-> date, todo |-> todo, blockers |-> blockers]
    /\ out' = cat_section(IF todo THEN "TODO" ELSE "Blockers", date, now, files)
    /\ exitcode' = 0
    /\ pc' = "done"
    /\ UNCHANGED <<now, files, dirs, modes, vim, call>>

\* lines 155-187, given what build_filename returned or raised.  An unparsed
\* date leaves build_filename with an uncaught AttributeError: a traceback
\* on stderr, nothing on stdout, exit status 1.
MainOpenAt(date, bf) ==
    IF ~bf.ok
    THEN /\ exitcode' = 1
         /\ pc' = "done"
         /\ UNCHANGED <<dirs, vim>>
    ELSE /\ dirs' = dirs \cup {bf.path[1]}
         /\ pc' = "vim"
         /\ exitcode' = exitcode
         /\ vim' = IF NoteExists(files, bf.path)
                   THEN [open |-> TRUE, path |-> bf.path, create |-> FALSE, text |-> <<>>]
                   ELSE [open |-> TRUE, path |-> bf.path, create |-> TRUE,
                         text |-> InitialText(date, now, files)]

\* main() without flags, up to the call of the editor
MainOpen(date) ==
    /\ pc = "idle"
    /\ inv' = [run |-> TRUE, date |-> date, todo |-> FALSE, blockers |-> FALSE]
    /\ out' = NoOutput
    /\ MainOpenAt(date, build_filename(date, now))
    /\ UNCHANGED <<now, files, modes, call>>

\* what the user may leave in a note
EditContents == {
    <<>>,
    <<"a", "\n">>,
    Heading("TODO") \o <<"\n", "a", "\n", "\n">> \o Heading("Blockers") \o <<"\n", "b", "\n">>,
    Heading("TODO") \o <<"\n">> \o Heading("Blockers") \o <<"\n", "b", "\n">>,
    Heading("TODO") \o <<"\n", "a", "\n">> }

Write(fs, path, content) ==
    [q \in DOMAIN fs \cup {path} |-> IF q = path THEN content ELSE fs[q]]

\* the user leaves the editor: the file is written (with the text the editor
\* was given, or with something else) or left as it was.  At most MaxFiles
\* notes are ever kept.
EditorExit(save, content) ==
    /\ pc = "vim"
    /\ save => (vim.path \in DOMAIN files \/ Cardinality(DOMAIN files) < MaxFiles)
    /\ files' = IF save THEN Write(files, vim.path, content) ELSE files
    /\ pc' = IF vim.create THEN "chmod" ELSE "done"
    /\ exitcode' = IF vim.create THEN exitcode ELSE 0
    /\ UNCHANGED <<now, dirs, modes, vim, out, inv, call>>

\* line 188: chmod 600, its failure ignored
MainChmod ==
    /\ pc = "chmod"
    /\ modes' = IF vim.path \in DOMAIN files
                THEN [q \in DOMAIN modes \cup {vim.path} |-> 600]
                ELSE modes
    /\ pc' = "done"
    /\ exitcode' = 0
    /\ UNCHANGED <<now, files, dirs, vim, out, inv, call>>

\* the process is gone; the filesystem is what remains of it
Exit ==
    /\ pc = "done"
    /\ pc' = "idle"
    /\ vim' = NoEditor
    /\ out' = NoOutput
    /\ exitcode' = 0
    /\ inv' = NoInvocation
    /\ UNCHANGED <<now, files, dirs, modes, call>>

\* the user edits an existing note outside the program
UserEdit(path, content) ==
    /\ pc = "idle"
    /\ path \in DOMAIN files
    /\ files' = Write(files, path, content)
    /\ UNCHANGED <<now, dirs, modes, pc, vim, out, exitcode, inv, call>>

\* ------------------------------------------------------------ the inputs
NewYear == Ord(BoundaryYear, 1, 1)
Days == (NewYear - DaysBefore)..(NewYear + DaysAfter)

RenderGroups(yg, mg, dg, fmt) ==
    IF fmt.order = "YMD"
    THEN DateTok(yg, fmt.sep, mg, fmt.sep, dg)
    ELSE DateTok(dg, fmt.sep, mg, fmt.sep, yg)

\* the string strftime would give for day n in format FMTS[i]
Render(n, i) ==
    RenderGroups(IF FMTS[i].ylen = 4 THEN Grp(YearOf(n), 4) ELSE Grp(YearOf(n) % 100, 2),
                 Grp(MonthOf(n), 2), Grp(DayOf(n), 2), FMTS[i])

RelativeTokens == {NoneTok, Word(""), Word("this"), Word("today"), Word("last")}

\* strings that are neither a keyword nor in one of the six formats
BadTokens == {
    Word("foo"),
    Word("ast"),
    DateTok(Grp(BoundaryYear, 4), "-", Grp(2, 2), "-", Grp(30, 2)),
    DateTok(Grp(BoundaryYear, 4), "-", Grp(13, 2), "-", Grp(1, 2)),
    DateTok(Grp(BoundaryYear, 4), "-", Grp(1, 2), "/", Grp(4, 2)),
    DateTok(Grp(BoundaryYear, 4), ".", Grp(1, 2), ".", Grp(4, 2)),
    DateTok(Grp(4, 2), "-", Grp(1, 2), "-", Grp(BoundaryYear % 100, 2)) }

ExplicitTokens ==
    {Render(n, 1) : n \in Days}
        \cup {Render(n, i) : n \in {NewYear - 1, NewYear, NewYear + 3}, i \in 2..Len(FMTS)}
        \cup {DateTok(Grp(BoundaryYear, 4), "-", Grp(1, 1), "-", Grp(2, 1))}

Tokens == RelativeTokens \cup ExplicitTokens \cup BadTokens

\* the weeks of a year: 1..52, and 53 when December 28th falls in week 53
WeeksOf(year) == 1..isocalendar(Ord(year, 12, 28))[2]

\* --------------------------------------------- direct calls of the functions
\* Each behaviour of the function specifications makes one direct call.
NoCall == [op |-> "none"]

CallGetYearAndWeek(date) ==
    /\ call = NoCall
    /\ call' = [op |-> "get_year_and_week_from_date", date |-> date,
                res |-> get_year_and_week_from_date(date, now)]
    /\ UNCHANGED <<now, files, mainVars>>

CallBuildFilename(date) ==
    /\ call = NoCall
    /\ call' = [op |-> "build_filename", date |-> date,
                res |-> build_filename(date, now)]
    /\ UNCHANGED <<now, files, mainVars>>

CallIsoWeekToDateRange(year, week, days) ==
    /\ call = NoCall
    /\ call' = [op |-> "iso_week_to_date_range", year |-> year, week |-> week,
                days |-> days, res |-> iso_week_to_date_range(year, week, days)]
    /\ UNCHANGED <<now, files, mainVars>>

InitIdle ==
    /\ files = << >>
    /\ dirs = {}
    /\ modes = << >>
    /\ pc = "idle"
    /\ vim = NoEditor
    /\ out = NoOutput
    /\ exitcode = 0
    /\ inv = NoInvocation
    /\ call = NoCall

InitDate ==
    /\ now \in Days
    /\ InitIdle

NextDate ==
    \/ \E date \in Tokens : CallGetYearAndWeek(date)
    \/ \E date \in Tokens : CallBuildFilename(date)
    \/ \E year \in MinYear..MaxYear : \E week \in WeeksOf(year) : \E days \in {5, 7} :
            CallIsoWeekToDateRange(year, week, days)

SpecDate == InitDate /\ [][NextDate]_vars

\* ------------------------------------------- direct calls of cat_section
\* the lines a note may hold
LineKinds == {
    <<>>,
    <<"a">>,
    <<" ", "b", " ">>,
    Heading("TODO"),
    Heading("Blockers"),
    Heading("Done"),
    <<"#">> \o Heading("TODO"),
    <<"a">> \o Heading("TODO"),
    <<"#", "#", "#", " ", "b">> }

RECURSIVE JoinLines(_)
JoinLines(ls) ==
    IF Len(ls) = 0 THEN <<>>
    ELSE IF Len(ls) = 1 THEN ls[1]
    ELSE ls[1] \o <<"\n">> \o JoinLines(Tail(ls))

LineSeqs == UNION {[1..k -> LineKinds] : k \in 1..MaxLines}

\* every text of at most MaxLines lines, with and without a final newline
SectionContents ==
    {JoinLines(ls) : ls \in LineSeqs} \cup {JoinLines(ls) \o <<"\n">> : ls \in LineSeqs}

CallCatSection(section, date) ==
    /\ call = NoCall
    /\ call' = [op |-> "cat_section", section |-> section, date |-> date,
                res |-> cat_section(section, date, now, files)]
    /\ UNCHANGED <<now, files, mainVars>>

\* this week's note holds any of the contents, or does not exist
InitSection ==
    /\ now = NewYear + DaysAfter
    /\ \/ files = << >>
       \/ \E c \in SectionContents :
            files = [p \in {build_filename(NoneTok, now).path} |-> c]
    /\ dirs = {}
    /\ modes = << >>
    /\ pc = "idle"
    /\ vim = NoEditor
    /\ out = NoOutput
    /\ exitcode = 0
    /\ inv = NoInvocation
    /\ call = NoCall

NextSection ==
    \E section \in {"TODO", "Blockers"} :
        \E date \in {NoneTok, Word("this"), Word("last"), Word("foo")} :
            CallCatSection(section, date)

SpecSection == InitSection /\ [][NextSection]_vars

\* ------------------------------------------------------ the program in use
\* The clock stands still within a behaviour (Init picks the day): notes of
\* other weeks come from "last" and from an explicit date.
MainTokens == {NoneTok, Word("last"), Word("foo"), Render(NewYear - DaysBefore, 1)}

Init ==
    /\ now \in Days
    /\ InitIdle

Next ==
    \/ \E date \in MainTokens : \E todo, blockers \in BOOLEAN : MainQuery(date, todo, blockers)
    \/ \E date \in MainTokens : MainOpen(date)
    \/ EditorExit(FALSE, <<>>)
    \/ \E content \in EditContents \cup {vim.text} : EditorExit(TRUE, content)
    \/ MainChmod
    \/ Exit
    \/ \E path \in DOMAIN files : \E content \in EditContents : UserEdit(path, content)

Spec == Init /\ [][Next]_vars

\* ------------------------------------------------------ the reference scan
FirstNewline(s) == Least({x \in 1..Len(s) : s[x] = "\n"})

RECURSIVE Lines(_)
\* content.split("\n")
Lines(s) ==
    IF \A i \in 1..Len(s) : s[i] # "\n" THEN <<s>>
    ELSE <<SubSeq(s, 1, FirstNewline(s) - 1)>> \o Lines(SubSeq(s, FirstNewline(s) + 1, Len(s)))

HasHeading(ls, section) == \E k \in 1..Len(ls) : ls[k] = Heading(section)

\* the content has a line that is exactly "## <section>"
HasHeadingLine(content, section) == HasHeading(Lines(content), section)

\* the nearest line after line k that begins with "##", or the end
NextHeadingIndex(ls, k) ==
    Least({m \in (k + 1)..Len(ls) : StartsWithAt(ls[m], 1, <<"#", "#">>)} \cup {Len(ls) + 1})

BodyAfter(ls, k) == Strip(JoinLines(SubSeq(ls, k + 1, NextHeadingIndex(ls, k) - 1)))

RefScanLines(ls, section) ==
    BodyAfter(ls, Least({k \in 1..Len(ls) : ls[k] = Heading(section)}))

\* the text after the first line equal to "## <section>" up to the nearest
\* following line that begins with "##", trimmed
RefScan(content, section) == RefScanLines(Lines(content), section)

\* ------------------------------------------------------------ properties
\* the Monday of the Monday..Sunday week that contains day n
MondayOfWeek(n) == CHOOSE m \in (n - 6)..n : isoweekday(m) = 1

NamedAfter(res, s) == res.ok /\ res.path[2] = MonthOf(s) /\ res.path[3] = DayOf(s)

NamedAfterMonday(res, r) == r.ok => NamedAfter(res, MondayOfWeek(r.ord))

\* C1: for every resolvable date d, build_filename names the file after the
\* month-day of the Monday of the Monday..Sunday week that contains d
\* (s <= d <= s + 6), also at year boundaries.
C1_FilenameIsMondayOfWeek ==
    call.op = "build_filename" => NamedAfterMonday(call.res, ResolveDate(call.date, now))

\* a date argument that is no keyword and is in none of the six formats
Unparseable(date) ==
    /\ ~Falsy(date)
    /\ ~(date.kind = "word" /\ date.word \in {"this", "today", "last"})
    /\ ~FirstParsed(TryFormats(date)).ok

\* C2: an unparseable date argument makes the program print
\* "Unable to parse date '<token>'" and exit with status 1, with and
\* without --todo/--blockers.
C2_ParseErrorReported ==
    (pc = "done" /\ inv.run /\ Unparseable(inv.date)) =>
        /\ out.kind = "Unable to parse date"
        /\ out.date = inv.date
        /\ exitcode = 1

\* a step of the program itself (the editor session and outside edits are
\* the user's)
ProgramStep == (pc = "idle" /\ pc' # "idle") \/ pc \in {"chmod", "done"}

\* C3: no step of the program changes a note file that exists and is not
\* empty, and the editor is given template text only for a file that is
\* absent or empty.
C3_NeverOverwrites ==
    [][ProgramStep =>
        /\ \A p \in DOMAIN files :
              Len(files[p]) > 0 => (p \in DOMAIN files' /\ files'[p] = files[p])
        /\ (pc' = "vim" /\ vim'.create) =>
              ~(vim'.path \in DOMAIN files /\ Len(files[vim'.path]) > 0)]_vars

OtherNote(last) == last.path \in DOMAIN files /\ last.path # vim.path

\* C3 witness: the program has opened an existing non-empty note while last
\* week's note, the carry-forward source, exists as well
C3_Witness ==
    /\ pc = "vim" /\ ~vim.create
    /\ vim.path \in DOMAIN files /\ Len(files[vim.path]) > 0
    /\ OtherNote(build_filename(Word("last"), now))

MatchesLineScan(res, bf, section) ==
    (bf.ok /\ ReadableNote(files, bf.path) /\ HasHeadingLine(files[bf.path], section)) =>
        (res.kind = "str" /\ res.text = RefScan(files[bf.path], section))

\* C4: when the content has a line that is exactly "## <name>", cat_section
\* returns what the reference line scan returns.
C4_MatchesLineScan ==
    call.op = "cat_section" =>
        MatchesLineScan(call.res, build_filename(call.date, now), call.section)

\* the section a query asks for
QuerySection == IF inv.todo THEN "TODO" ELSE "Blockers"

\* the note is missing, empty, or has no "## <section>" line
NothingToPrint(bf, section) ==
    /\ bf.ok
    /\ \/ bf.path \notin DOMAIN files
       \/ files[bf.path] = <<>>
       \/ ~HasHeadingLine(files[bf.path], section)

\* C5: a --todo/--blockers query reports "No notes found" when the note is
\* missing, empty, or has no "## <section>" heading line.
C5_NotFoundRaised ==
    (/\ pc = "done" /\ (inv.todo \/ inv.blockers)
     /\ NothingToPrint(build_filename(inv.date, now), QuerySection)) =>
        out.kind = "FileNotFoundError"

\* the note file of the week before the week of the resolved date r
PrecedingNote(r) == build_filename(Render(r.ord - 7, 1), now).path

Carried(prev, section) ==
    (/\ prev \in DOMAIN files
     /\ HasHeadingLine(files[prev], section)
     /\ RefScan(files[prev], section) # <<>>) =>
        /\ HasHeadingLine(vim.text, section)
        /\ RefScan(vim.text, section) = RefScan(files[prev], section)

CarriedBoth(prev) == \A section \in {"TODO", "Blockers"} : Carried(prev, section)

\* C6: a new note for week X carries the non-empty TODO body, and
\* independently the non-empty Blockers body, of the note of the week
\* immediately preceding X, whatever the date argument.
C6_CarryFromPrecedingWeek ==
    (pc = "vim" /\ vim.create) => CarriedBoth(PrecedingNote(ResolveDate(inv.date, now)))

WeekBefore(last, this) ==
    IF this.week > 1
    THEN last.year = this.year /\ last.week = this.week - 1
    ELSE last.year = this.year - 1 /\ last.week \in {52, 53}

\* C7: if the omitted token resolves to (Y, W), 'last' resolves to (Y, W-1)
\* when W > 1 and to (Y-1, 52) or (Y-1, 53) when W = 1.
C7_LastIsPreviousWeek ==
    (call.op = "get_year_and_week_from_date" /\ call.date = Word("last")) =>
        WeekBefore(call.res, get_year_and_week_from_date(NoneTok, now))

\* C8: a --todo/--blockers invocation changes no file, no directory and no
\* permission, and opens no editor.
C8_QueryLeavesFilesystem ==
    [][(pc = "idle" /\ pc' = "done" /\ (inv'.todo \/ inv'.blockers)) =>
        /\ files' = files
        /\ dirs' = dirs
        /\ modes' = modes
        /\ vim' = vim]_vars

NothingThere(bf) == bf.ok /\ bf.path \notin DOMAIN files /\ bf.path[1] \notin dirs

\* C8 witness: a query for a week whose note and year directory do not
\* exist has printed the not-found message
C8_Witness ==
    /\ pc = "done" /\ inv.todo
    /\ out.kind = "FileNotFoundError"
    /\ NothingThere(build_filename(inv.date, now))

\* C9: iso_week_to_date_range(year, week, days=5) starts on a Monday, ends on
\* the Friday 4 days later, and starts 7*(week-1) days after the Monday of
\* the week containing January 4th of year.
C9_WorkWeekRange ==
    (call.op = "iso_week_to_date_range" /\ call.days = 5) =>
        /\ isoweekday(call.res[1]) = 1
        /\ isoweekday(call.res[2]) = 5
        /\ call.res[2] = call.res[1] + 4
        /\ call.res[1] = MondayOfWeek(Ord(call.year, 1, 4)) + 7 * (call.week - 1)

\* C9 witness: the work-week of a week 53 has been computed
C9_Witness ==
    call.op = "iso_week_to_date_range" /\ call.days = 5 /\ call.week = 53

\* the lines of a text that begin with "#"
HeadLines(text) == SelectSeq(Lines(text), LAMBDA l : StartsWithAt(l, 1, <<"#">>))

TitleAndSections(hs) ==
    /\ Len(hs) = 4
    /\ StartsWithAt(hs[1], 1, <<"#", " ">>)
    /\ hs[2] = Heading("Done")
    /\ hs[3] = Heading("TODO")
    /\ hs[4] = Heading("Blockers")

\* C10: the text given to the editor for a new note has exactly one title
\* line, then exactly one "## Done", "## TODO" and "## Blockers" line.
C10_TemplateShape ==
    (pc = "vim" /\ vim.create) => TitleAndSections(HeadLines(vim.text))

====
